---- MODULE Spec2Model ----
(***************************************************************************)
(* Model of lg::LeakLogic and its two detection criteria                   *)
(* (include/leakguard/leak_logic.hpp).                                     *)
(*                                                                         *)
(* Flow rates and rate thresholds are floats in the source; the model      *)
(* writes them as integers in thousandths of a litre per minute            *)
(* (2.0f is 2000), which keeps every comparison the code makes.            *)
(* A criterion is one record with the fields of both classes; the fields   *)
(* of the other class stay at their defaults.  SensorState::probeStates is *)
(* a function over the probe slots that vary; every other slot is false.   *)
(* elapsedTime is in seconds and never negative.                           *)
(* include/leak_logic.hpp is an earlier copy of the header whose update    *)
(* and getAction are the same code.                                        *)
(* The texts of serialize, deserialize and loadFromString are sequences of *)
(* characters; a threshold is written as its hundredths, truncated.        *)
(***************************************************************************)
EXTENDS Integers, Sequences, FiniteSets, TLC

VARIABLES
    criteria,   \* LeakLogic::criteria, in insertion order
    last,       \* the last call made on the LeakLogic
    ret,        \* what that call returned
    obs         \* one observer per criterion, in the same order (history only)

vars == <<criteria, last, ret, obs>>

-----------------------------------------------------------------------------
(* Program constants *)

LEAK_LOGIC_MAX_CRITERIA == 10

(* Bounds of the model *)

\* the largest accumulatedTime a run of ticks is let to reach
MaxAccum == 2

\* the number of criteria a LeakLogic holds in the behaviours of Spec
MaxHeld == 3

(* Inputs *)

FlowRates == {1000, 2000, 3000}

\* <<rateThreshold, minDuration>> of the flow criteria a client configures
FlowSettings == { <<2000, 2>>, <<3000, 1>> }

ElapsedTimes == {0, 1, 2}

\* the probe slots of SensorState::probeStates the model varies
ProbeSlots == {7, 42}

ProbeIds == {69}

RemoveIndexes == 0 .. MaxHeld

-----------------------------------------------------------------------------
(* LeakPreventionAction and std::optional<LeakPreventionAction> *)

LeakPreventionAction(actionType, reason, probeId) ==
    [actionType |-> actionType, reason |-> reason, probeId |-> probeId % 256]

NoAction == LeakPreventionAction("NO_ACTION", "NONE", -1)

nullopt == << >>

Some(a) == << a >>

-----------------------------------------------------------------------------
(* SensorState *)

SensorState(flowRate, probeStates) ==
    [flowRate |-> flowRate, probeStates |-> probeStates]

SensorStates ==
    { SensorState(f, p) : f \in FlowRates, p \in [ProbeSlots -> BOOLEAN] }

-----------------------------------------------------------------------------
(* TimeBasedFlowRateCriterion *)

\* accumulatedTime and active are initialised as if the duration had passed
TimeBasedFlowRateCriterionPreloaded(rateThreshold, minDuration) ==
    [kind |-> "T",
     rateThreshold |-> rateThreshold, minDuration |-> minDuration,
     accumulatedTime |-> minDuration, active |-> TRUE,
     probeId |-> 0, leakDetected |-> FALSE]

TimeBasedFlowRateCriterion(rateThreshold, minDuration) ==
    [kind |-> "T",
     rateThreshold |-> rateThreshold, minDuration |-> minDuration,
     accumulatedTime |-> 0, active |-> FALSE,
     probeId |-> 0, leakDetected |-> FALSE]

\* a tick below the threshold pauses the run instead of ending it
TimeBasedUpdatePausing(c, sensorState, elapsedTime) ==
    IF sensorState.flowRate >= c.rateThreshold
    THEN [c EXCEPT !.accumulatedTime = @ + elapsedTime, !.active = TRUE]
    ELSE [c EXCEPT !.active = FALSE]

\* once the duration has been reached the accumulation starts over
TimeBasedUpdateRestarting(c, sensorState, elapsedTime) ==
    IF sensorState.flowRate >= c.rateThreshold
    THEN [c EXCEPT !.accumulatedTime =
                       IF c.active /\ @ >= c.minDuration THEN elapsedTime
                                                          ELSE @ + elapsedTime,
                   !.active = TRUE]
    ELSE [c EXCEPT !.accumulatedTime = 0, !.active = FALSE]

TimeBasedUpdate(c, sensorState, elapsedTime) ==
    IF sensorState.flowRate >= c.rateThreshold
    THEN [c EXCEPT !.accumulatedTime = @ + elapsedTime, !.active = TRUE]
    ELSE [c EXCEPT !.accumulatedTime = 0, !.active = FALSE]

\* the comparison of getAction made strict
TimeBasedGetActionStrict(c) ==
    IF c.active /\ c.accumulatedTime > c.minDuration
    THEN Some(LeakPreventionAction("CLOSE_VALVE", "EXCEEDED_FLOW_RATE", -1))
    ELSE nullopt

TimeBasedGetAction(c) ==
    IF c.active /\ c.accumulatedTime >= c.minDuration
    THEN Some(LeakPreventionAction("CLOSE_VALVE", "EXCEEDED_FLOW_RATE", -1))
    ELSE nullopt

-----------------------------------------------------------------------------
(* ProbeLeakDetectionCriterion *)

ProbeLeakDetectionCriterion(probeId) ==
    [kind |-> "P",
     rateThreshold |-> 0, minDuration |-> 0,
     accumulatedTime |-> 0, active |-> FALSE,
     probeId |-> probeId % 256, leakDetected |-> FALSE]

\* only the slot of the configured probe is looked at
ProbeUpdateOwnSlot(c, sensorState, elapsedTime) ==
    [c EXCEPT !.leakDetected =
        /\ c.probeId \in DOMAIN sensorState.probeStates
        /\ sensorState.probeStates[c.probeId]]

ProbeUpdate(c, sensorState, elapsedTime) ==
    [c EXCEPT !.leakDetected =
        \E slot \in DOMAIN sensorState.probeStates :
            sensorState.probeStates[slot]]

ProbeGetAction(c) ==
    IF c.leakDetected
    THEN Some(LeakPreventionAction("CLOSE_VALVE", "LEAK_DETECTED_BY_PROBE",
                                   c.probeId))
    ELSE nullopt

-----------------------------------------------------------------------------
(* LeakDetectionCriterion: the virtual calls *)

CriterionUpdate(c, sensorState, elapsedTime) ==
    IF c.kind = "T"
    THEN TimeBasedUpdate(c, sensorState, elapsedTime)
    ELSE ProbeUpdate(c, sensorState, elapsedTime)

CriterionGetAction(c) ==
    IF c.kind = "T" THEN TimeBasedGetAction(c) ELSE ProbeGetAction(c)

NewCriteria ==
    { TimeBasedFlowRateCriterion(s[1], s[2]) : s \in FlowSettings }
    \cup { ProbeLeakDetectionCriterion(p) : p \in ProbeIds }

-----------------------------------------------------------------------------
(* StaticVector<T, capacity>: the fixed-capacity container holding the      *)
(* criteria.  Each operation yields the vector after the call and the bool *)
(* it returns.                                                             *)

StaticVectorAppend(v, item, capacity) ==
    IF Len(v) >= capacity
    THEN [vec |-> v, ok |-> FALSE]
    ELSE [vec |-> Append(v, item), ok |-> TRUE]

\* index counts from 0, as in the source
StaticVectorRemoveIndex(v, index) ==
    IF index < 0 \/ index >= Len(v)
    THEN [vec |-> v, ok |-> FALSE]
    ELSE [vec |-> SubSeq(v, 1, index) \o SubSeq(v, index + 2, Len(v)),
          ok |-> TRUE]

StaticVectorClear(v) == << >>

-----------------------------------------------------------------------------
(* LeakLogic: each method yields the criteria after the call (vec) and     *)
(* what the call hands back.                                               *)

\* the loop ends at the first criterion that fires after its update
RECURSIVE updateUntilFired(_, _, _, _, _)
updateUntilFired(cs, calls, i, sensorState, elapsedTime) ==
    IF i > Len(cs)
    THEN [vec |-> cs, calls |-> calls]
    ELSE LET c == CriterionUpdate(cs[i], sensorState, elapsedTime)
         IN  IF CriterionGetAction(c) # nullopt
             THEN [vec |-> [cs EXCEPT ![i] = c], calls |-> Append(calls, i)]
             ELSE updateUntilFired([cs EXCEPT ![i] = c], Append(calls, i), i + 1,
                                   sensorState, elapsedTime)

\* the loop of LeakLogic::update from position i on; calls lists the
\* positions whose criterion had update invoked, in the order of the calls
RECURSIVE updateFrom(_, _, _, _, _)
updateFrom(cs, calls, i, sensorState, elapsedTime) ==
    IF i > Len(cs)
    THEN [vec |-> cs, calls |-> calls]
    ELSE updateFrom([cs EXCEPT ![i] = CriterionUpdate(cs[i], sensorState, elapsedTime)],
                    Append(calls, i), i + 1, sensorState, elapsedTime)

update(cs, sensorState, elapsedTime) ==
    updateFrom(cs, << >>, 1, sensorState, elapsedTime)

\* the loop of LeakLogic::getAction from position i on
RECURSIVE getActionFrom(_, _)
getActionFrom(cs, i) ==
    IF i > Len(cs)
    THEN LeakPreventionAction("NO_ACTION", "NONE", -1)
    ELSE IF CriterionGetAction(cs[i]) # nullopt
         THEN CriterionGetAction(cs[i])[1]
         ELSE getActionFrom(cs, i + 1)

\* the last criterion that fires decides instead of the first
getActionLastWins(cs) ==
    LET firing == { i \in 1 .. Len(cs) : CriterionGetAction(cs[i]) # nullopt }
        winner == CHOOSE i \in firing : \A j \in firing : j <= i
    IN  [vec |-> cs,
         action |-> IF firing = {}
                    THEN LeakPreventionAction("NO_ACTION", "NONE", -1)
                    ELSE CriterionGetAction(cs[winner])[1]]

\* reading the decision acknowledges it: the criterion that fired is reset
getActionConsuming(cs) ==
    LET firing == { i \in 1 .. Len(cs) : CriterionGetAction(cs[i]) # nullopt }
        winner == CHOOSE i \in firing : \A j \in firing : i <= j
    IN  IF firing = {}
        THEN [vec |-> cs, action |-> LeakPreventionAction("NO_ACTION", "NONE", -1)]
        ELSE [vec |-> [cs EXCEPT ![winner].accumulatedTime = 0,
                                 ![winner].active = FALSE,
                                 ![winner].leakDetected = FALSE],
              action |-> CriterionGetAction(cs[winner])[1]]

\* a const method: the criteria are handed back as they were
getAction(cs) == [vec |-> cs, action |-> getActionFrom(cs, 1)]

\* the bool of Append is dropped and success reported
addCriterionUnchecked(cs, criterion) ==
    [vec |-> StaticVectorAppend(cs, criterion, LEAK_LOGIC_MAX_CRITERIA).vec,
     ok |-> TRUE]

addCriterion(cs, criterion) ==
    StaticVectorAppend(cs, criterion, LEAK_LOGIC_MAX_CRITERIA)

\* the index is taken to count from 1
removeCriterionFromOne(cs, index) == StaticVectorRemoveIndex(cs, (index % 256) - 1)

\* the parameter is a uint8_t
removeCriterion(cs, index) == StaticVectorRemoveIndex(cs, index % 256)

\* the criterion of the highest priority is kept
clearCriteriaButFirst(cs) == IF cs = << >> THEN cs ELSE << cs[1] >>

clearCriteria(cs) == StaticVectorClear(cs)

-----------------------------------------------------------------------------
(* Observers: what happened to each criterion since it was added, written  *)
(* down beside the program and never read by it.                           *)
(*   tripped  some probe slot was true in the last update it got           *)
(*   inRun    its last update had flowRate >= its rateThreshold            *)
(*   run      the elapsed time summed over the ticks of that run           *)
(*   solo     the same criterion kept as the only one of a LeakLogic       *)

NewObserver(c) ==
    [tripped |-> FALSE, inRun |-> FALSE, run |-> 0, solo |-> c]

ObserveTick(o, sensorState, elapsedTime) ==
    LET flows == o.solo.kind = "T" /\ sensorState.flowRate >= o.solo.rateThreshold
    IN  [tripped |-> TRUE \in { sensorState.probeStates[s] :
                                     s \in DOMAIN sensorState.probeStates },
         inRun   |-> flows,
         run     |-> IF flows THEN (IF o.inRun THEN o.run ELSE 0) + elapsedTime ELSE 0,
         solo    |-> update(<< o.solo >>, sensorState, elapsedTime).vec[1]]

ObserveAdd(os, c) ==
    IF Len(os) < LEAK_LOGIC_MAX_CRITERIA THEN Append(os, NewObserver(c)) ELSE os

ObserveRemove(os, index) ==
    IF index < Len(os)
    THEN [j \in 1 .. Len(os) - 1 |-> IF j <= index THEN os[j] ELSE os[j + 1]]
    ELSE os

-----------------------------------------------------------------------------
(* The calls a client makes *)

\* The record of a call: its name, and about the state it found
\*   index     the index handed to removeCriterion
\*   size      the number of criteria held when the call was made
\*   calls     the positions LeakLogic::update invoked update on, in order
\*   replaces  a TimeBasedFlowRateCriterion that had accumulated time was
\*             removed by the call, or since by the calls before this one
\*   wiped     the update took a flow criterion's accumulated time back to 0
\*   again     the call before this getAction was a getAction too
Call(op) == [op |-> op, index |-> 0, size |-> Len(criteria), calls |-> << >>,
             replaces |-> FALSE, wiped |-> FALSE, again |-> FALSE]

Void == [ok |-> TRUE, action |-> NoAction]

Init ==
    /\ criteria = << >>
    /\ last = [op |-> "LeakLogic", index |-> 0, size |-> 0, calls |-> << >>,
               replaces |-> FALSE, wiped |-> FALSE, again |-> FALSE]
    /\ ret = Void
    /\ obs = << >>

\* removeCriterion(index) takes out a TimeBasedFlowRateCriterion that has
\* accumulated time
RemovesAccumulated(index) ==
    /\ index < Len(criteria)
    /\ criteria[index + 1].kind = "T"
    /\ criteria[index + 1].accumulatedTime > 0

CallAddCriterion(c) ==
    LET r == addCriterion(criteria, c)
    IN  /\ criteria' = r.vec
        /\ ret' = [ok |-> r.ok, action |-> NoAction]
        /\ last' = [Call("addCriterion") EXCEPT
                        !.replaces = last.op \in {"removeCriterion", "update"}
                                     /\ last.replaces]
        /\ obs' = ObserveAdd(obs, c)

CallRemoveCriterion(index) ==
    LET r == removeCriterion(criteria, index)
    IN  /\ criteria' = r.vec
        /\ ret' = [ok |-> r.ok, action |-> NoAction]
        /\ last' = [Call("removeCriterion") EXCEPT
                        !.index = index,
                        !.replaces = RemovesAccumulated(index)]
        /\ obs' = ObserveRemove(obs, index)

CallClearCriteria ==
    /\ criteria' = clearCriteria(criteria)
    /\ ret' = Void
    /\ last' = Call("clearCriteria")
    /\ obs' = << >>

CallUpdate(sensorState, elapsedTime) ==
    LET r == update(criteria, sensorState, elapsedTime)
    IN  /\ \A i \in 1 .. Len(r.vec) : r.vec[i].accumulatedTime <= MaxAccum
        /\ criteria' = r.vec
        /\ ret' = Void
        /\ last' = [Call("update") EXCEPT
                        !.calls = r.calls,
                        !.wiped = \E i \in 1 .. Len(criteria) :
                                      /\ criteria[i].kind = "T"
                                      /\ criteria[i].accumulatedTime > 0
                                      /\ sensorState.flowRate < criteria[i].rateThreshold,
                        !.replaces = last.op \in {"removeCriterion", "update"}
                                     /\ last.replaces]
        /\ obs' = [i \in 1 .. Len(obs) |-> ObserveTick(obs[i], sensorState, elapsedTime)]

CallGetAction ==
    LET r == getAction(criteria)
    IN  /\ criteria' = r.vec
        /\ ret' = [ok |-> TRUE, action |-> r.action]
        /\ last' = [Call("getAction") EXCEPT !.again = last.op = "getAction"]
        /\ UNCHANGED obs

Next ==
    \/ \E c \in NewCriteria : Len(criteria) < MaxHeld /\ CallAddCriterion(c)
    \/ \E index \in RemoveIndexes : CallRemoveCriterion(index)
    \/ CallClearCriteria
    \/ \E s \in SensorStates, e \in ElapsedTimes : CallUpdate(s, e)
    \/ CallGetAction

Spec == Init /\ [][Next]_vars

-----------------------------------------------------------------------------
(* A client that fills the LeakLogic to its capacity.  It registers the    *)
(* criteria of the serialization test over and over (a flow criterion,     *)
(* then two probe criteria), ticks in between, and once the LeakLogic is   *)
(* full tries to register one more criterion of any kind.                  *)

FillCriterion(n) ==
    CASE n % 3 = 0 -> TimeBasedFlowRateCriterion(2000, 2)
      [] n % 3 = 1 -> ProbeLeakDetectionCriterion(42)
      [] OTHER     -> ProbeLeakDetectionCriterion(69)

FillSensorStates ==
    { SensorState(3000, [s \in ProbeSlots |-> s = 42]),
      SensorState(1000, [s \in ProbeSlots |-> FALSE]) }

\* the criteria this client passes to addCriterion
FillCriteria == NewCriteria \cup { FillCriterion(n) : n \in 0 .. 2 }

NextFull ==
    \/ \E c \in FillCriteria :
          /\ Len(criteria) < LEAK_LOGIC_MAX_CRITERIA => c = FillCriterion(Len(criteria))
          /\ CallAddCriterion(c)
    \/ \E index \in {(Len(criteria) - 1) % 256, 255} : CallRemoveCriterion(index)
    \/ CallClearCriteria
    \/ \E s \in FillSensorStates : CallUpdate(s, 1)
    \/ CallGetAction

SpecFull == Init /\ [][NextFull]_vars

-----------------------------------------------------------------------------
(* StaticString<N>: a string is the sequence of its characters, each a     *)
(* one-character string.  The texts of the model stay below the capacity   *)
(* of every buffer they pass through (8 characters for a number, 16 for a  *)
(* field, LEAK_LOGIC_MAX_SERIALIZE_LENGTH for a record or a document).     *)

DecimalDigits == <<"0", "1", "2", "3", "4", "5", "6", "7", "8", "9">>

DigitChars == { DecimalDigits[n] : n \in 1 .. 10 }

\* StaticString<8>::Of(value): the base-10 text of an integer
RECURSIVE Of(_)
Of(value) ==
    IF value < 0
    THEN <<"-">> \o Of(-value)
    ELSE IF value < 10
         THEN << DecimalDigits[value + 1] >>
         ELSE Append(Of(value \div 10), DecimalDigits[(value % 10) + 1])

\* the value read so far, then the digits of s from position i on
RECURSIVE ToIntegerFrom(_, _, _)
ToIntegerFrom(s, i, value) ==
    IF i > Len(s)
    THEN value
    ELSE ToIntegerFrom(s, i + 1,
             value * 10 + (CHOOSE n \in 0 .. 9 : DecimalDigits[n + 1] = s[i]))

\* StaticString::ToInteger<int>(): the integer a base-10 text stands for
ToInteger(s) ==
    IF s # << >> /\ s[1] = "-"
    THEN -ToIntegerFrom(s, 2, 0)
    ELSE ToIntegerFrom(s, 1, 0)

\* StaticString::Truncate(length): the first length characters are kept
Truncate(s, length) == SubSeq(s, 1, length)

-----------------------------------------------------------------------------
(* The records of the criteria *)

\* static_cast<int>(rateThreshold * 100): a threshold in thousandths is
\* divided by ten, the fraction dropped toward zero
RateToInt(rateThreshold) ==
    IF rateThreshold >= 0
    THEN rateThreshold \div 10
    ELSE -((-rateThreshold) \div 10)

\* the division by 100 is left out
RateFromIntWhole(n) == n * 1000

\* static_cast<float>(n) / 100.0f, in thousandths
RateFromInt(n) == n * 10

\* the scaled threshold is rounded to the nearest integer
TimeBasedSerializeRounding(c) ==
    <<"T", ",">> \o Of((c.rateThreshold + 5) \div 10) \o <<",">>
                 \o Of(c.minDuration) \o <<",">>

\* the record ends with the seconds accumulated so far
TimeBasedSerializeWithRun(c) ==
    <<"T", ",">> \o Of(RateToInt(c.rateThreshold)) \o <<",">>
                 \o Of(c.minDuration + c.accumulatedTime) \o <<",">>

TimeBasedSerialize(c) ==
    <<"T", ",">> \o Of(RateToInt(c.rateThreshold)) \o <<",">>
                 \o Of(c.minDuration) \o <<",">>

ProbeSerialize(c) == <<"P", ",">> \o Of(c.probeId) \o <<",">>

\* LeakDetectionCriterion::serialize, the virtual call
CriterionSerialize(c) ==
    IF c.kind = "T" THEN TimeBasedSerialize(c) ELSE ProbeSerialize(c)

\* an empty std::unique_ptr<LeakDetectionCriterion>
nullptr ==
    [kind |-> "nullptr",
     rateThreshold |-> 0, minDuration |-> 0,
     accumulatedTime |-> 0, active |-> FALSE,
     probeId |-> 0, leakDetected |-> FALSE]

\* the loop of TimeBasedFlowRateCriterion::deserialize from character i on:
\* the characters up to the next "," are appended to buffer, the "," last
\* and truncated again; with no "," left the loop runs out
RECURSIVE TimeBasedDeserializeFrom(_, _, _, _, _)
TimeBasedDeserializeFrom(serialized, i, buffer, state, rateThreshold) ==
    LET commas == { k \in i .. Len(serialized) : serialized[k] = "," }
    IN  IF commas = {}
        THEN nullptr
        ELSE LET k     == CHOOSE k \in commas : \A j \in commas : k <= j
                 field == Truncate(buffer \o SubSeq(serialized, i, k),
                                   Len(buffer) + (k - i))
             IN  CASE state = "TYPE" ->
                        TimeBasedDeserializeFrom(serialized, k + 1, << >>,
                            "RATE_THRESH", rateThreshold)
                   [] state = "RATE_THRESH" ->
                        TimeBasedDeserializeFrom(serialized, k + 1, << >>,
                            "MIN_DURATION", RateFromInt(ToInteger(field)))
                   [] state = "MIN_DURATION" ->
                        TimeBasedFlowRateCriterion(rateThreshold, ToInteger(field))

\* the two numeric fields are read in the other order
TimeBasedDeserializeSwapped(serialized) ==
    LET c == TimeBasedDeserializeFrom(serialized, 1, << >>, "TYPE", 0)
    IN  IF c = nullptr
        THEN nullptr
        ELSE TimeBasedFlowRateCriterion(RateFromInt(c.minDuration),
                                        c.rateThreshold \div 10)

TimeBasedDeserialize(serialized) ==
    TimeBasedDeserializeFrom(serialized, 1, << >>, "TYPE", 0)

\* the loop of ProbeLeakDetectionCriterion::deserialize from character i on,
\* field by field in the same way
RECURSIVE ProbeDeserializeFrom(_, _, _, _)
ProbeDeserializeFrom(serialized, i, buffer, state) ==
    LET commas == { k \in i .. Len(serialized) : serialized[k] = "," }
    IN  IF commas = {}
        THEN nullptr
        ELSE LET k     == CHOOSE k \in commas : \A j \in commas : k <= j
                 field == Truncate(buffer \o SubSeq(serialized, i, k),
                                   Len(buffer) + (k - i))
             IN  CASE state = "TYPE" ->
                        ProbeDeserializeFrom(serialized, k + 1, << >>, "PROBE_ID")
                   [] state = "PROBE_ID" ->
                        ProbeLeakDetectionCriterion(ToInteger(field))

ProbeDeserialize(serialized) ==
    ProbeDeserializeFrom(serialized, 1, << >>, "TYPE")

-----------------------------------------------------------------------------
(* LeakLogic::serialize and LeakLogic::loadFromString *)

\* the loop of LeakLogic::serialize from position i on
RECURSIVE serializeFrom(_, _, _)
serializeFrom(cs, i, serialized) ==
    IF i > Len(cs)
    THEN serialized
    ELSE serializeFrom(cs, i + 1,
                       (serialized \o CriterionSerialize(cs[i])) \o <<"|">>)

\* the records are written from the last criterion to the first
serializeBackwards(cs) ==
    serializeFrom([i \in 1 .. Len(cs) |-> cs[Len(cs) + 1 - i]], 1, << >>)

serialize(cs) == serializeFrom(cs, 1, << >>)

\* the loop of LeakLogic::loadFromString from character i on.  calls lists
\* the calls of addCriterion it made, in order: the chunk that led to the
\* call, the criterion handed over and the bool addCriterion returned, which
\* loadFromString drops.  The characters up to the next "|" are appended to
\* buffer, the "|" last and truncated again; with no "|" left the loop runs
\* out and what is in buffer is dropped.  A chunk is dispatched on its first
\* character; an empty chunk has none and is passed over.
RECURSIVE loadFromStringFrom(_, _, _, _, _)
loadFromStringFrom(cs, calls, serialized, i, buffer) ==
    LET bars == { k \in i .. Len(serialized) : serialized[k] = "|" }
    IN  IF bars = {}
        THEN [vec |-> cs, calls |-> calls]
        ELSE LET k     == CHOOSE k \in bars : \A j \in bars : k <= j
                 chunk == Truncate(buffer \o SubSeq(serialized, i, k),
                                   Len(buffer) + (k - i))
                 made  == IF chunk[1] = "T"
                          THEN TimeBasedDeserialize(chunk)
                          ELSE ProbeDeserialize(chunk)
                 r     == addCriterion(cs, made)
             IN  IF chunk # << >> /\ chunk[1] \in {"T", "P"}
                 THEN loadFromStringFrom(r.vec,
                          Append(calls, [chunk |-> chunk, criterion |-> made,
                                         ok |-> r.ok]),
                          serialized, k + 1, << >>)
                 ELSE loadFromStringFrom(cs, calls, serialized, k + 1, << >>)

\* a chunk with an unknown first character is read as a probe record
loadFromStringAnyTag(cs, serialized) ==
    loadFromStringFrom(cs, << >>,
        [i \in 1 .. Len(serialized) |->
            IF serialized[i] \in {"T", "P", ",", "|"} \cup DigitChars
            THEN serialized[i] ELSE "P"],
        1, << >>)

loadFromString(cs, serialized) ==
    loadFromStringFrom(cs, << >>, serialized, 1, << >>)

-----------------------------------------------------------------------------
(* A client that saves and restores the criteria.  It registers and        *)
(* removes criteria, ticks, saves the criteria with serialize and restores *)
(* the saved text into a new LeakLogic; a provisioning collaborator loads  *)
(* documents into the LeakLogic while it is empty or within two criteria   *)
(* of its capacity.  Beyond MaxHeld criteria the client registers one more *)
(* only on top of the criteria of the filling client, and it removes the   *)
(* first criterion only while no more than MaxHeld are held.               *)

\* the records of SerializationTests
RecordT200 == <<"T", ",", "2", "0", "0", ",", "6", "0", ",">>
RecordP42  == <<"P", ",", "4", "2", ",">>
RecordP69  == <<"P", ",", "6", "9", ",">>

Bar == <<"|">>

\* "T,200,60,|P,42,|P,69,|"
DocumentOfTest ==
    RecordT200 \o Bar \o RecordP42 \o Bar \o RecordP69 \o Bar

\* "T,200,60,|P,42,|" and the same document without its last separator
DocumentClosed == RecordT200 \o Bar \o RecordP42 \o Bar
DocumentOpen   == RecordT200 \o Bar \o RecordP42

\* "P,42,|X,1,|T,200,60,|": a chunk of an unknown type between two records
DocumentUnknownTag ==
    RecordP42 \o Bar \o <<"X", ",", "1", ",">> \o Bar \o RecordT200 \o Bar

\* "P,42,|T,200,|P,69,|": a flow chunk that lacks its last field
DocumentShortT ==
    RecordP42 \o Bar \o <<"T", ",", "2", "0", "0", ",">> \o Bar \o RecordP69 \o Bar

\* "P,69,|P,42|T,200,60,|": a probe chunk whose id is not closed by a comma
DocumentShortP ==
    RecordP69 \o Bar \o <<"P", ",", "4", "2">> \o Bar \o RecordT200 \o Bar

Documents ==
    { DocumentOfTest, DocumentClosed, DocumentOpen,
      DocumentUnknownTag, DocumentShortT, DocumentShortP }

\* the flow criteria whose threshold has a third decimal: (1.673, 1234) of
\* SerializationTests and (1.679, 60)
FineCriteria ==
    { TimeBasedFlowRateCriterion(1673, 1234), TimeBasedFlowRateCriterion(1679, 60) }

\* the criteria this client passes to addCriterion
SavedCriteria == FineCriteria \cup { FillCriterion(n) : n \in 0 .. 2 }

\* the criteria are those the filling client registers, in its order
FilledInOrder(cs) ==
    \A i \in 1 .. Len(cs) :
        [cs[i] EXCEPT !.accumulatedTime = 0, !.active = FALSE,
                      !.leakDetected = FALSE] = FillCriterion(i - 1)

HoldsNull(cs) == \E i \in 1 .. Len(cs) : cs[i] = nullptr

CallSerialize ==
    /\ ret' = [ok |-> TRUE, action |-> NoAction, text |-> serialize(criteria)]
    /\ last' = Call("serialize")
    /\ UNCHANGED <<criteria, obs>>

\* loadFromString returns nothing
CallLoadFromString(serialized) ==
    LET r == loadFromString(criteria, serialized)
    IN  /\ criteria' = r.vec
        /\ ret' = Void
        /\ last' = [serialized |-> serialized]
                   @@ [Call("loadFromString") EXCEPT !.calls = r.calls]
        /\ obs' = [i \in 1 .. Len(r.vec) |->
                      IF i <= Len(obs) THEN obs[i] ELSE NewObserver(r.vec[i])]

\* The text the last serialize returned is loaded into a new LeakLogic,
\* which takes the place of the one that was saved.
Restore ==
    LET r == loadFromString(<< >>, ret.text)
    IN  /\ last.op = "serialize"
        /\ criteria' = r.vec
        /\ ret' = Void
        /\ last' = [serialized |-> ret.text]
                   @@ [Call("restore") EXCEPT !.calls = r.calls]
        /\ obs' = [i \in 1 .. Len(r.vec) |-> NewObserver(r.vec[i])]

\* update, getAction and serialize call through every element of criteria;
\* through an empty unique_ptr the call is undefined, and the process ends
\* in the call
CallThroughNull(op) ==
    /\ HoldsNull(criteria)
    /\ last' = Call("terminated")
    /\ ret' = Void
    /\ UNCHANGED <<criteria, obs>>

Running == last.op # "terminated"

NextCodec ==
    \/ /\ Running
       /\ \E c \in SavedCriteria :
             /\ Len(criteria) > 0 => c = FillCriterion(Len(criteria))
             /\ Len(criteria) >= MaxHeld => FilledInOrder(criteria)
             /\ CallAddCriterion(c)
    \/ /\ Running
       /\ \E index \in {0, (Len(criteria) - 1) % 256, 255} :
             /\ index = 0 => Len(criteria) <= MaxHeld
             /\ CallRemoveCriterion(index)
    \/ Running /\ CallClearCriteria
    \/ /\ Running /\ ~HoldsNull(criteria)
       /\ \E s \in FillSensorStates : CallUpdate(s, 1)
    \/ Running /\ ~HoldsNull(criteria) /\ CallGetAction
    \/ Running /\ ~HoldsNull(criteria) /\ CallSerialize
    \/ /\ Running
       /\ Len(criteria) \in {0} \cup (LEAK_LOGIC_MAX_CRITERIA - 2 .. LEAK_LOGIC_MAX_CRITERIA)
       /\ \E serialized \in Documents : CallLoadFromString(serialized)
    \/ Running /\ Restore
    \/ Running /\ \E op \in {"update", "getAction", "serialize"} : CallThroughNull(op)

SpecCodec == Init /\ [][NextCodec]_vars

-----------------------------------------------------------------------------
(* Vocabulary of the properties *)

Positions == 1 .. Len(criteria)

CloseForFlow == LeakPreventionAction("CLOSE_VALVE", "EXCEEDED_FLOW_RATE", 255)

CloseForProbe(p) == LeakPreventionAction("CLOSE_VALVE", "LEAK_DETECTED_BY_PROBE", p)

Fires(c) == CriterionGetAction(c) # nullopt

-----------------------------------------------------------------------------
\* C1: a TimeBasedFlowRateCriterion(r, d) whose last ticks form a run with
\* flowRate >= r yields no action while the elapsed time summed over the run
\* is < d, and CLOSE_VALVE / EXCEEDED_FLOW_RATE as soon as the sum is >= d; a
\* LeakLogic holding that criterion alone hands the same decision back.
C1_FiresWhenRunReachesDuration ==
    /\ Len(obs) = Len(criteria)
    /\ \A i \in Positions :
          (criteria[i].kind = "T" /\ obs[i].inRun) =>
              /\ obs[i].run < obs[i].solo.minDuration =>
                     CriterionGetAction(criteria[i]) = nullopt
              /\ obs[i].run >= obs[i].solo.minDuration =>
                     CriterionGetAction(criteria[i]) = Some(CloseForFlow)
    /\ (last.op = "getAction" /\ Len(criteria) = 1 /\ criteria[1].kind = "T"
            /\ obs[1].inRun) =>
          ret.action = IF obs[1].run >= obs[1].solo.minDuration
                       THEN CloseForFlow ELSE NoAction

\* a lone flow criterion has just fired on the tick that made the run's
\* elapsed time equal to its minDuration, after a tick on which it was silent
C1_Witness ==
    /\ last.op = "getAction"
    /\ Len(criteria) = 1
    /\ criteria[1].kind = "T"
    /\ obs[1].inRun
    /\ obs[1].run = criteria[1].minDuration
    /\ criteria[1].minDuration = 2
    /\ ret.action = CloseForFlow

-----------------------------------------------------------------------------
\* C2: a TimeBasedFlowRateCriterion(r, d) whose last tick had flowRate < r
\* is at accumulated time 0 and inactive, whatever it had accumulated, and
\* yields no action; and whenever it fires, the ticks of its current run
\* alone sum to >= d.
C2_TickBelowThresholdResets ==
    /\ Len(obs) = Len(criteria)
    /\ \A i \in Positions :
          criteria[i].kind = "T" =>
              /\ ~obs[i].inRun =>
                     /\ criteria[i].accumulatedTime = 0
                     /\ ~criteria[i].active
                     /\ CriterionGetAction(criteria[i]) = nullopt
              /\ Fires(criteria[i]) =>
                     /\ obs[i].inRun
                     /\ obs[i].run >= obs[i].solo.minDuration

\* an update has just wiped a flow criterion's accumulated time: the
\* criterion is back at 0, inactive and silent
C2_Witness ==
    /\ last.op = "update"
    /\ last.wiped
    /\ \E i \in Positions :
          /\ criteria[i].kind = "T"
          /\ ~obs[i].inRun
          /\ criteria[i].accumulatedTime = 0
          /\ ~criteria[i].active
          /\ ~Fires(criteria[i])

-----------------------------------------------------------------------------
-----------------------------------------------------------------------------
\* C4: on a LeakLogic with no criterion registered, an update whose
\* probeStates[42] is true is followed by a getAction that yields CLOSE_VALVE
\* with reason LEAK_DETECTED_BY_PROBE and probeId 42
\* (LeakLogicTests.ShouldRespondToProbeSignal).
C4_EmptyLogicRespondsToProbe42 ==
    [][ \A s \in SensorStates, e \in ElapsedTimes :
            (criteria = << >> /\ s.probeStates[42] /\ CallUpdate(s, e)) =>
                getAction(criteria').action = CloseForProbe(42)
      ]_vars

-----------------------------------------------------------------------------
-----------------------------------------------------------------------------
\* C6: addCriterion on a LeakLogic that holds LEAK_LOGIC_MAX_CRITERIA
\* criteria returns false and leaves the criteria as they were, state
\* included; on one that holds fewer it returns true and the criteria are the
\* old ones, unchanged, followed by the new one.
C6_AddFailsWhenFull ==
    [][ \A c \in FillCriteria :
            CallAddCriterion(c) =>
                IF Len(criteria) >= LEAK_LOGIC_MAX_CRITERIA
                THEN ret'.ok = FALSE /\ criteria' = criteria
                ELSE /\ ret'.ok = TRUE
                     /\ Len(criteria') = Len(criteria) + 1
                     /\ \A i \in Positions : criteria'[i] = criteria[i]
                     /\ criteria'[Len(criteria')] = c
      ]_vars

\* an eleventh addCriterion has been refused by a LeakLogic holding ten
\* criteria of both kinds, some of them with accumulated state
C6_Witness ==
    /\ last.op = "addCriterion"
    /\ last.size = LEAK_LOGIC_MAX_CRITERIA
    /\ ret.ok = FALSE
    /\ Len(criteria) = LEAK_LOGIC_MAX_CRITERIA
    /\ \E i, j \in Positions :
          /\ criteria[i].kind = "T" /\ criteria[i].accumulatedTime > 0
          /\ criteria[j].kind = "P" /\ criteria[j].leakDetected

-----------------------------------------------------------------------------
\* C7: removeCriterion(i) with i >= the number of criteria returns false and
\* leaves the criteria as they were; with i in bounds it returns true and
\* takes out exactly the criterion at index i: those before it stay, those
\* after it move down by one, each with its state.
C7_RemoveTakesOutIndex ==
    [][ \A index \in RemoveIndexes :
            CallRemoveCriterion(index) =>
                IF index >= Len(criteria)
                THEN ret'.ok = FALSE /\ criteria' = criteria
                ELSE /\ ret'.ok = TRUE
                     /\ Len(criteria') = Len(criteria) - 1
                     /\ \A j \in 1 .. index : criteria'[j] = criteria[j]
                     /\ \A j \in index + 1 .. Len(criteria') :
                            criteria'[j] = criteria[j + 1]
      ]_vars

\* the middle one of three criteria has been removed; the two that are left
\* differ and one of them carries accumulated time
C7_Witness ==
    /\ last.op = "removeCriterion"
    /\ last.size = 3
    /\ last.index = 1
    /\ ret.ok = TRUE
    /\ Len(criteria) = 2
    /\ criteria[1] # criteria[2]
    /\ \E i \in Positions : criteria[i].accumulatedTime > 0

-----------------------------------------------------------------------------
\* C8: LeakLogic::update invokes update once on every registered criterion,
\* in insertion order, also on those behind a criterion that fires; so every
\* criterion is in the state it would have as the only criterion of a
\* LeakLogic given the same ticks.
C8_UpdateReachesEveryCriterion ==
    /\ Len(obs) = Len(criteria)
    /\ last.op = "update" =>
          last.calls = [i \in Positions |-> i]
    /\ \A i \in Positions : criteria[i] = obs[i].solo

\* an update has run on a LeakLogic whose first criterion fires; a flow
\* criterion behind it has accumulated time all the same
C8_Witness ==
    /\ last.op = "update"
    /\ Len(criteria) >= 2
    /\ Fires(criteria[1])
    /\ \E i \in 2 .. Len(criteria) :
          /\ criteria[i].kind = "T"
          /\ criteria[i].accumulatedTime > 0
          /\ criteria[i] = obs[i].solo

-----------------------------------------------------------------------------
\* C9: getAction changes no state: the criteria, with every accumulated
\* time, active flag and leakDetected flag, are after the call what they
\* were before it, and a getAction that follows a getAction returns what
\* that one returned.
C9_GetActionChangesNothing ==
    [][ CallGetAction =>
            /\ criteria' = criteria
            /\ \A i \in Positions :
                   CriterionGetAction(criteria'[i]) = CriterionGetAction(criteria[i])
            /\ last.op = "getAction" => ret' = ret
      ]_vars

\* getAction has been called twice in a row and has answered CLOSE_VALVE;
\* the criterion that fired still fires
C9_Witness ==
    /\ last.op = "getAction"
    /\ last.again
    /\ ret.action.actionType = "CLOSE_VALVE"
    /\ \E i \in Positions :
          /\ Fires(criteria[i])
          /\ ret.action = CriterionGetAction(criteria[i])[1]

-----------------------------------------------------------------------------
\* C10: a TimeBasedFlowRateCriterion that addCriterion registers, also right
\* after removeCriterion took out one that had accumulated time, starts with
\* accumulated time 0 and inactive, is silent until it is ticked, and later
\* fires only while the ticks it got itself form a run that sums to >= its
\* own minDuration.
C10_AddedCriterionStartsFresh ==
    [][ /\ \A c \in NewCriteria :
              (CallAddCriterion(c) /\ ret'.ok /\ c.kind = "T") =>
                  LET new == criteria'[Len(criteria')]
                  IN  /\ new.rateThreshold = c.rateThreshold
                      /\ new.minDuration = c.minDuration
                      /\ new.accumulatedTime = 0
                      /\ ~new.active
                      /\ ~Fires(new)
        /\ \A i \in 1 .. Len(criteria') :
              criteria'[i].kind = "T" =>
                  /\ criteria'[i].accumulatedTime = obs'[i].run
                  /\ criteria'[i].active = obs'[i].inRun
                  /\ Fires(criteria'[i]) <=>
                         (obs'[i].inRun /\ obs'[i].run >= criteria'[i].minDuration)
      ]_vars

\* a flow criterion has been registered after removeCriterion took out one
\* that had accumulated time; the new one holds no time and is silent
C10_Witness ==
    /\ last.op = "addCriterion"
    /\ last.replaces
    /\ ret.ok
    /\ LET new == criteria[Len(criteria)]
       IN  /\ new.kind = "T"
           /\ new.accumulatedTime = 0
           /\ ~new.active
           /\ ~Fires(new)

-----------------------------------------------------------------------------
(* Vocabulary of the properties about the saved text *)

\* the pieces of s between the occurrences of sep; the piece after the last
\* occurrence comes last and is empty when s ends with sep
RECURSIVE SplitOn(_, _)
SplitOn(s, sep) ==
    IF \A k \in 1 .. Len(s) : s[k] # sep
    THEN << s >>
    ELSE LET k == CHOOSE k \in 1 .. Len(s) :
                      s[k] = sep /\ \A j \in 1 .. k - 1 : s[j] # sep
         IN  << SubSeq(s, 1, k - 1) >> \o SplitOn(SubSeq(s, k + 1, Len(s)), sep)

\* text is the base-10 numeral of the natural number n: its last digit is
\* n mod 10 and the digits before it are the numeral of n div 10
RECURSIVE Denotes(_, _)
Denotes(text, n) ==
    /\ n >= 0
    /\ text # << >>
    /\ text[Len(text)] = DecimalDigits[(n % 10) + 1]
    /\ IF Len(text) = 1
       THEN n < 10
       ELSE /\ n >= 10
            /\ Denotes(SubSeq(text, 1, Len(text) - 1), n \div 10)

\* n is r * 100 with its fraction dropped, for a threshold r >= 0 written in
\* thousandths
IsTruncatedHundredths(n, r) == n * 10 <= r /\ r < (n + 1) * 10

\* the criteria held that are flow criteria, and those that are probe criteria
FlowPositions == { i \in Positions : criteria[i].kind = "T" }

ProbePositions == { i \in Positions : criteria[i].kind = "P" }

-----------------------------------------------------------------------------
\* C12: the record of TimeBasedFlowRateCriterion(r, d) is "T," then the
\* base-10 numeral of r * 100 truncated, a comma, the base-10 numeral of d
\* and a comma ((1.673, 1234) gives "T,167,1234,"); the record of
\* ProbeLeakDetectionCriterion(p) is "P," then the numeral of p and a
\* comma; the record of a criterion that has been ticked is the record of
\* one newly constructed from the same arguments.
C12_RecordFormat ==
    /\ TimeBasedSerialize(TimeBasedFlowRateCriterion(1673, 1234))
           = <<"T", ",", "1", "6", "7", ",", "1", "2", "3", "4", ",">>
    /\ \A i \in FlowPositions :
          LET c == criteria[i]
              fields == SplitOn(CriterionSerialize(c), ",")
          IN  /\ Len(fields) = 4
              /\ fields[1] = <<"T">>
              /\ \E n \in 0 .. c.rateThreshold :
                    IsTruncatedHundredths(n, c.rateThreshold) /\ Denotes(fields[2], n)
              /\ Denotes(fields[3], c.minDuration)
              /\ fields[4] = << >>
              /\ CriterionSerialize(c)
                    = CriterionSerialize(TimeBasedFlowRateCriterion(c.rateThreshold,
                                                                    c.minDuration))
    /\ \A i \in ProbePositions :
          LET c == criteria[i]
              fields == SplitOn(CriterionSerialize(c), ",")
          IN  /\ Len(fields) = 3
              /\ fields[1] = <<"P">>
              /\ Denotes(fields[2], c.probeId)
              /\ fields[3] = << >>
              /\ CriterionSerialize(c)
                    = CriterionSerialize(ProbeLeakDetectionCriterion(c.probeId))

\* serialize has been called on a LeakLogic holding a flow criterion with a
\* third decimal in its threshold that is active with accumulated time, and
\* a probe criterion that has detected a leak
C12_Witness ==
    /\ last.op = "serialize"
    /\ \E i \in FlowPositions :
          /\ criteria[i].rateThreshold % 10 # 0
          /\ criteria[i].active
          /\ criteria[i].accumulatedTime > 0
    /\ \E i \in ProbePositions : criteria[i].leakDetected

-----------------------------------------------------------------------------
\* C13: the text LeakLogic::serialize returns is, for each criterion held in
\* the order of insertion (the criteria removed since left out), the record
\* of that criterion followed by one "|", and nothing else; a LeakLogic
\* holding no criterion returns the empty text.
C13_DocumentIsRecordsInOrder ==
    last.op = "serialize" =>
        LET chunks == SplitOn(ret.text, "|")
        IN  /\ Len(chunks) = Len(obs) + 1
            /\ \A i \in 1 .. Len(obs) : chunks[i] = CriterionSerialize(obs[i].solo)
            /\ chunks[Len(chunks)] = << >>
            /\ (obs = << >> => ret.text = << >>)

\* serialize has been called after the first criterion registered, a flow
\* criterion, was removed: the text is "P,42,|P,69,|"
C13_Witness ==
    /\ last.op = "serialize"
    /\ Len(criteria) = 2
    /\ criteria[1].kind = "P" /\ criteria[1].probeId = 42
    /\ criteria[2].kind = "P" /\ criteria[2].probeId = 69
    /\ ret.text = RecordP42 \o Bar \o RecordP69 \o Bar

-----------------------------------------------------------------------------
-----------------------------------------------------------------------------
\* C15: for a flow criterion x with threshold r >= 0 and duration d,
\* deserialize(serialize(x)) has minDuration d exactly and a rateThreshold
\* less than 0.01 away from r.
C15_DurationExactThresholdNear ==
    [][ last'.op = "restore" =>
          \A i \in FlowPositions :
              criteria[i].rateThreshold >= 0 =>
                  LET x == criteria[i]
                      y == TimeBasedDeserialize(TimeBasedSerialize(x))
                  IN  /\ criteria'[i] = y
                      /\ y.kind = "T"
                      /\ y.minDuration = x.minDuration
                      /\ y.rateThreshold - x.rateThreshold < 10
                      /\ x.rateThreshold - y.rateThreshold < 10
      ]_vars

\* (1.673, 1234) has been saved and restored as (1.67, 1234)
C15_Witness ==
    /\ last.op = "restore"
    /\ Len(criteria) >= 1
    /\ criteria[1] = TimeBasedFlowRateCriterion(1670, 1234)

-----------------------------------------------------------------------------
\* C16 as stated: the threshold of deserialize(serialize(x)) is within 0.005
\* of r.
C16_ThresholdWithinHalfHundredth ==
    [][ last'.op = "restore" =>
          \A i \in FlowPositions :
              criteria[i].rateThreshold >= 0 =>
                  /\ criteria'[i].rateThreshold - criteria[i].rateThreshold <= 5
                  /\ criteria[i].rateThreshold - criteria'[i].rateThreshold <= 5
      ]_vars

\* C16 amended: the threshold of deserialize(serialize(x)) is the largest
\* multiple of 0.01 that is not above r: never above r, and less than 0.01
\* below it.
C16_ThresholdTruncatedDownward ==
    [][ last'.op = "restore" =>
          \A i \in FlowPositions :
              criteria[i].rateThreshold >= 0 =>
                  /\ criteria'[i].rateThreshold % 10 = 0
                  /\ criteria'[i].rateThreshold <= criteria[i].rateThreshold
                  /\ criteria[i].rateThreshold - criteria'[i].rateThreshold < 10
      ]_vars

\* (1.679, 60) has been saved and restored as (1.67, 60), 0.009 below
C16_Witness ==
    /\ last.op = "restore"
    /\ Len(criteria) >= 1
    /\ criteria[1] = TimeBasedFlowRateCriterion(1670, 60)

-----------------------------------------------------------------------------
(* Vocabulary of the properties about loaded documents *)

IsNumeral(text) ==
    text # << >> /\ \A k \in 1 .. Len(text) : text[k] \in DigitChars

\* chunk is a record of the persisted format:
\*   "T," int "," int ","   or   "P," int ","
IsRecord(chunk) ==
    LET fields == SplitOn(chunk, ",")
    IN  \/ /\ Len(fields) = 4
           /\ fields[1] = <<"T">>
           /\ IsNumeral(fields[2]) /\ IsNumeral(fields[3])
           /\ fields[4] = << >>
        \/ /\ Len(fields) = 3
           /\ fields[1] = <<"P">>
           /\ IsNumeral(fields[2])
           /\ fields[3] = << >>

\* the criterion a record stands for
RecordCriterion(record) ==
    LET fields == SplitOn(record, ",")
    IN  IF fields[1] = <<"T">>
        THEN TimeBasedFlowRateCriterion(RateFromInt(ToInteger(fields[2])),
                                        ToInteger(fields[3]))
        ELSE ProbeLeakDetectionCriterion(ToInteger(fields[2]))

\* the non-empty chunks of a document, whether or not the last one is
\* followed by "|"
Chunks(document) ==
    SelectSeq(SplitOn(document, "|"), LAMBDA chunk : chunk # << >>)

\* the criteria of the well-formed records of a document, in its order
RecordCriteria(document) ==
    LET records == SelectSeq(Chunks(document), IsRecord)
    IN  [j \in 1 .. Len(records) |-> RecordCriterion(records[j])]

EndsWithBar(document) ==
    document # << >> /\ document[Len(document)] = "|"

HasUnknownChunk(document) ==
    \E j \in 1 .. Len(Chunks(document)) : Chunks(document)[j][1] \notin {"T", "P"}

HasMalformedChunk(document) ==
    \E j \in 1 .. Len(Chunks(document)) :
        /\ Chunks(document)[j][1] \in {"T", "P"}
        /\ ~IsRecord(Chunks(document)[j])

\* the first LEAK_LOGIC_MAX_CRITERIA elements of cs
UpToCapacity(cs) ==
    SubSeq(cs, 1, IF Len(cs) < LEAK_LOGIC_MAX_CRITERIA
                  THEN Len(cs) ELSE LEAK_LOGIC_MAX_CRITERIA)

\* the step is a call of loadFromString
Loads == last'.op = "loadFromString"

-----------------------------------------------------------------------------
\* C14: when loadFromString is given a document in which some "T" or "P"
\* chunk is malformed (each chunk followed by "|", the LeakLogic with room
\* for every chunk), no criterion is added for a malformed chunk and the
\* well-formed records before and after it are added in order: the criteria
\* added are those of the well-formed records, as many as there are.
C14_MalformedChunkAddsNothing ==
    [][ ( /\ Loads
          /\ HasMalformedChunk(last'.serialized)
          /\ EndsWithBar(last'.serialized)
          /\ Len(criteria) + Len(Chunks(last'.serialized)) <= LEAK_LOGIC_MAX_CRITERIA )
        => /\ Len(criteria') - Len(criteria) = Len(RecordCriteria(last'.serialized))
           /\ criteria' = criteria \o RecordCriteria(last'.serialized)
      ]_vars

-----------------------------------------------------------------------------
\* C17: a call that finds the LeakLogic without room reports it to its
\* caller: addCriterion on a full LeakLogic returns false, and a
\* loadFromString during which a record was refused for lack of room hands
\* its caller a failure.
C17_CapacityExceededIsReported ==
    [][ /\ ( /\ last'.op = "addCriterion"
             /\ Len(criteria) = LEAK_LOGIC_MAX_CRITERIA ) => ~ret'.ok
        /\ ( /\ Loads
             /\ \E j \in 1 .. Len(last'.calls) : ~last'.calls[j].ok ) => ~ret'.ok
      ]_vars

-----------------------------------------------------------------------------
\* C18: loadFromString adds the criteria of every chunk of a document made
\* of well-formed records, as far as there is room, whether or not the last
\* record is followed by "|": "T,200,60,|P,42," adds what "T,200,60,|P,42,|"
\* adds.
C18_LastSeparatorIsOptional ==
    [][ ( /\ Loads
          /\ ~HasUnknownChunk(last'.serialized)
          /\ ~HasMalformedChunk(last'.serialized) )
        => /\ criteria' = UpToCapacity(criteria \o RecordCriteria(last'.serialized))
           /\ last'.serialized = DocumentOpen =>
                  criteria' = loadFromString(criteria, DocumentClosed).vec
      ]_vars

-----------------------------------------------------------------------------
\* C19: when loadFromString is given a document with a chunk whose first
\* character is neither 'T' nor 'P' (its other chunks well-formed records,
\* each chunk followed by "|"), addCriterion is called for no such chunk and,
\* in the order of the document, for the criterion of every record; the
\* criteria held afterwards are those held before followed by the criteria
\* of the records, as far as the LeakLogic has room.
C19_UnknownTagIsSkipped ==
    [][ ( /\ Loads
          /\ HasUnknownChunk(last'.serialized)
          /\ ~HasMalformedChunk(last'.serialized)
          /\ EndsWithBar(last'.serialized) )
        => /\ \A j \in 1 .. Len(last'.calls) : last'.calls[j].chunk[1] \in {"T", "P"}
           /\ [j \in 1 .. Len(last'.calls) |-> last'.calls[j].criterion]
                  = RecordCriteria(last'.serialized)
           /\ criteria' = UpToCapacity(criteria \o RecordCriteria(last'.serialized))
           /\ ret' = Void
      ]_vars

\* "P,42,|X,1,|T,200,60,|" has been loaded into an empty LeakLogic, which
\* now holds the probe criterion and the flow criterion
C19_Witness ==
    /\ last.op = "loadFromString"
    /\ last.serialized = DocumentUnknownTag
    /\ last.size = 0
    /\ criteria = << ProbeLeakDetectionCriterion(42),
                     TimeBasedFlowRateCriterion(2000, 60) >>

-----------------------------------------------------------------------------
\* C20: after every call (addCriterion, removeCriterion, clearCriteria,
\* loadFromString, update, getAction, serialize, a restore) the LeakLogic
\* holds at most LEAK_LOGIC_MAX_CRITERIA criteria; after clearCriteria it
\* holds none, and a getAction that follows returns NO_ACTION.
C20_NeverMoreThanCapacity ==
    [][ /\ Len(criteria') <= LEAK_LOGIC_MAX_CRITERIA
        /\ last'.op = "clearCriteria" => criteria' = << >>
        /\ (last.op = "clearCriteria" /\ last'.op = "getAction") =>
               /\ ret'.action = LeakPreventionAction("NO_ACTION", "NONE", -1)
               /\ criteria' = << >>
      ]_vars

\* loadFromString has been called on a LeakLogic with fewer free places than
\* the document has records: it holds LEAK_LOGIC_MAX_CRITERIA criteria and a
\* record was refused
C20_Witness ==
    /\ last.op = "loadFromString"
    /\ last.size < LEAK_LOGIC_MAX_CRITERIA
    /\ Len(criteria) = LEAK_LOGIC_MAX_CRITERIA
    /\ \E j \in 1 .. Len(last.calls) : ~last.calls[j].ok

-----------------------------------------------------------------------------
\* C21: in every state reached by calls of addCriterion, removeCriterion,
\* clearCriteria and loadFromString, every element of criteria is a
\* criterion and none an empty unique_ptr, so that no update, getAction or
\* serialize calls through a missing criterion.
C21_EveryElementIsACriterion ==
    /\ \A i \in Positions : criteria[i].kind \in {"T", "P"}
    /\ Running

-----------------------------------------------------------------------------
\* C22: a flow criterion that fires keeps firing after every tick whose
\* flowRate is at least its threshold (the elapsed times are not negative):
\* such a tick adds its elapsed time to the accumulated time, which firing
\* neither caps nor resets; after a tick whose flowRate is below the
\* threshold the criterion does not fire.
C22_FiringLastsThroughTheRun ==
    [][ last'.op = "update" =>
          \A i \in Positions :
              criteria[i].kind = "T" =>
                  /\ (Fires(criteria[i]) /\ obs'[i].inRun) =>
                         /\ Fires(criteria'[i])
                         /\ criteria'[i].accumulatedTime >= criteria[i].accumulatedTime
                         /\ criteria'[i].accumulatedTime - criteria[i].accumulatedTime
                                = obs'[i].run - obs[i].run
                  /\ ~obs'[i].inRun => ~Fires(criteria'[i])
      ]_vars

\* A flow criterion fires after a tick that found it firing already: a
\* second flow criterion, registered later, is in its run as well, and the
\* first had reached its duration before the time the two share.
C22_Witness ==
    /\ last.op = "update"
    /\ \E i, j \in Positions :
          /\ criteria[i].kind = "T" /\ criteria[j].kind = "T"
          /\ criteria[i].active /\ criteria[j].active
          /\ criteria[j].accumulatedTime > 0
          /\ criteria[i].accumulatedTime - criteria[j].accumulatedTime
                 >= criteria[i].minDuration
          /\ Fires(criteria[i])

====
